---- MODULE Spec2Model ----
(***************************************************************************)
(* Backdrop-aware filter pass manager of @pixi/picture                     *)
(* (src/src/FilterSystemMixin.ts): pushWithCheck / push / pop /            *)
(* prepareBackdrop, mixed into the host renderer's FilterSystem.           *)
(*                                                                         *)
(* Coordinates are exact fixed-point numbers: one pixel is Unit steps, so  *)
(* that the host's rounding epsilon (0.001 px) is Eps = 2 steps and a      *)
(* width below the epsilon can be written.  Resolutions are 1 or 2.        *)
(***************************************************************************)
EXTENDS Integers, Sequences, FiniteSets, TLC

(***************************************************************************)
(* Bounds of the model.                                                    *)
(***************************************************************************)
\* opens (accepted or rejected) in one behaviour
MaxPush == 2
\* regions open at once
MaxDepth == 2

(***************************************************************************)
(* Numbers.                                                                *)
(***************************************************************************)
Unit == 2 * 1000
Eps == Unit \div 1000
Px(n) == n * Unit

Min(a, b) == IF a < b THEN a ELSE b
Max(a, b) == IF a > b THEN a ELSE b
CeilDiv(a, b) == -((-a) \div b)
\* Math.round(v / d): nearest integer, halves towards +infinity
RoundDiv(v, d) == ((2 * v) + d) \div (2 * d)
\* Math.ceil(v / d - 1e-6) for v / d a multiple of 1 / Unit
CeilPixels(v, d) == CeilDiv(v, d)

RECURSIVE nextPow2(_)
nextPow2(v) == IF v <= 1 THEN 1 ELSE 2 * nextPow2((v + 1) \div 2)

(***************************************************************************)
(* Rectangles (host @pixi/math Rectangle, used by pushWithCheck).          *)
(***************************************************************************)
Rect(x, y, w, h) == [x |-> x, y |-> y, width |-> w, height |-> h]
EmptyRect == Rect(0, 0, 0, 0)

\* state.sourceFrame.pad(padding)
pad(r, p) == Rect(r.x - p, r.y - p, r.width + (2 * p), r.height + (2 * p))

\* state.sourceFrame.fit(sourceFrameProjected)
fit(r, o) ==
    LET x1 == Max(r.x, o.x)
        x2 == Min(r.x + r.width, o.x + o.width)
        y1 == Max(r.y, o.y)
        y2 == Min(r.y + r.height, o.y + o.height)
    IN  Rect(x1, y1, Max(x2 - x1, 0), Max(y2 - y1, 0))

\* state.sourceFrame.intersects(sourceFrameProjected), no transform argument
intersects(r, o) ==
    LET x0 == IF r.x < o.x THEN o.x ELSE r.x
        x1 == IF r.x + r.width > o.x + o.width THEN o.x + o.width ELSE r.x + r.width
        y0 == IF r.y < o.y THEN o.y ELSE r.y
        y1 == IF r.y + r.height > o.y + o.height THEN o.y + o.height ELSE r.y + r.height
    IN  IF x1 <= x0 THEN FALSE ELSE y1 > y0

\* Rectangle.ceil(resolution, eps = 0.001)
ceil(r, resolution) ==
    LET step == Unit \div resolution
        x2 == CeilDiv((r.x + r.width - Eps) * resolution, Unit) * step
        y2 == CeilDiv((r.y + r.height - Eps) * resolution, Unit) * step
        x == (((r.x + Eps) * resolution) \div Unit) * step
        y == (((r.y + Eps) * resolution) \div Unit) * step
    IN  Rect(x, y, x2 - x, y2 - y)

containsRect(rectOut, rectIn) ==
    LET r1 == rectIn.x + rectIn.width
        b1 == rectIn.y + rectIn.height
        r2 == rectOut.x + rectOut.width
        b2 == rectOut.y + rectOut.height
    IN  /\ rectIn.x >= rectOut.x
        /\ rectIn.x <= r2
        /\ rectIn.y >= rectOut.y
        /\ rectIn.y <= b2
        /\ r1 >= rectOut.x
        /\ r1 <= r2
        /\ b1 >= rectOut.y
        /\ b1 <= b2

(***************************************************************************)
(* Projection transforms: null, or a translation (a = d = 1, b = c = 0).   *)
(***************************************************************************)
NoTransform == [set |-> FALSE, tx |-> 0, ty |-> 0]
Translation(tx, ty) == [set |-> TRUE, tx |-> tx, ty |-> ty]

\* transformAABB(matrix, rect) for a translation by (dx, dy)
transformAABB(dx, dy, r) == Rect(r.x + dx, r.y + dy, r.width, r.height)

\* FilterSystem.roundFrame(frame, resolution, bindingSourceFrame,
\* bindingDestinationFrame, transform): to screen space, ceil, and back.
roundFrame(frame, resolution, bsf, bdf, transform) ==
    IF \/ frame.width <= 0
       \/ frame.height <= 0
       \/ bsf.width <= 0
       \/ bsf.height <= 0
    THEN frame
    ELSE LET tx == IF transform.set THEN transform.tx ELSE 0
             ty == IF transform.set THEN transform.ty ELSE 0
             \* scale(bdf.width / bsf.width, bdf.height / bsf.height) and its inverse
             sx(v) == IF bdf.width = bsf.width THEN v ELSE (v * bdf.width) \div bsf.width
             sy(v) == IF bdf.height = bsf.height THEN v ELSE (v * bdf.height) \div bsf.height
             ux(v) == IF bdf.width = bsf.width THEN v ELSE (v * bsf.width) \div bdf.width
             uy(v) == IF bdf.height = bsf.height THEN v ELSE (v * bsf.height) \div bdf.height
             screen == Rect(sx(frame.x + tx - bsf.x) + bdf.x,
                            sy(frame.y + ty - bsf.y) + bdf.y,
                            sx(frame.width), sy(frame.height))
             c == ceil(screen, resolution)
         IN  Rect(ux(c.x - bdf.x) + bsf.x - tx,
                  uy(c.y - bdf.y) + bsf.y - ty,
                  ux(c.width), uy(c.height))

(***************************************************************************)
(* The filters of the scene: objects with declared capabilities.  A chain  *)
(* is a sequence of filter ids; the same object may be used by several     *)
(* regions.  resolution 0 and multisample Unset are "not declared".        *)
(***************************************************************************)
Unset == -1
NullTex == 0
Undefined == -2

Filters == 1 .. 5

FilterDef(f) ==
    CASE f = 1 -> [resolution |-> 1, multisample |-> Unset, padding |-> Px(4),
                   autoFit |-> TRUE, legacy |-> "unset",
                   backdropUniformName |-> "", trivial |-> FALSE,
                   programLegacy |-> FALSE]
      [] f = 2 -> [resolution |-> 0, multisample |-> Unset, padding |-> 0,
                   autoFit |-> TRUE, legacy |-> "false",
                   backdropUniformName |-> "uBackdrop", trivial |-> FALSE,
                   programLegacy |-> FALSE]
      [] f = 3 -> [resolution |-> 2, multisample |-> 4, padding |-> Px(2),
                   autoFit |-> TRUE, legacy |-> "false",
                   backdropUniformName |-> "", trivial |-> TRUE,
                   programLegacy |-> FALSE]
      [] f = 5 -> [resolution |-> 1, multisample |-> Unset, padding |-> Px(1),
                   autoFit |-> TRUE, legacy |-> "false",
                   backdropUniformName |-> "uBackdrop", trivial |-> FALSE,
                   programLegacy |-> FALSE]
      [] OTHER -> [resolution |-> 1, multisample |-> 0, padding |-> 0,
                   autoFit |-> FALSE, legacy |-> "true",
                   backdropUniformName |-> "uBackdrop", trivial |-> FALSE,
                   programLegacy |-> TRUE]

(***************************************************************************)
(* The display objects: target.filterArea || target.getBounds(true).       *)
(***************************************************************************)
Targets == 1 .. 7

TargetBounds(t) ==
    CASE t = 1 -> Rect(Px(10), Px(10), Px(50), Px(50))
      \* narrower than the rounding epsilon
      [] t = 2 -> Rect(0, 0, Eps \div 2, Px(50))
      \* outside every visible frame, touching the right edge of the screen
      [] t = 3 -> Rect(Px(200), Px(100), Px(20), Px(20))
      \* one pixel
      [] t = 4 -> Rect(Px(20), Px(20), Px(1), Px(1))
      \* off the pixel grid
      [] t = 5 -> Rect(Px(10) + (Unit \div 4), Px(10) + (Unit \div 2),
                       Px(20) + (Unit \div 2), Px(30))
      \* partly outside the visible frame
      [] t = 6 -> Rect(-Px(10), Px(150), Px(100), Px(100))
      \* empty, off the pixel grid
      [] OTHER -> Rect(Px(10) + (Unit \div 4), Px(10) + (Unit \div 4), 0, 0)

\* the calls pushWithCheck(target, filters) the scene makes
CheckedOpens ==
    ({1} \X {<<1>>, <<2>>, <<3>>, <<1, 2>>, <<1, 3>>, <<2, 4>>, <<1, 2, 3>>,
             <<1, 2, 4>>})
    \cup ({2, 3, 4, 6} \X {<<2>>})
    \cup ({3, 5, 6} \X {<<4>>})

\* the calls push(target, filters) the scene makes
UncheckedOpens == {<<1, <<2>>>>, <<3, <<2>>>>, <<6, <<4>>>>, <<7, <<4>>>>}

(***************************************************************************)
(* The render targets the scene renders into: the main backbuffer          *)
(* (NullTex) and a render texture of the application.                      *)
(***************************************************************************)
UserTextures == {1}
ScreenFrame == Rect(0, 0, Px(200), Px(200))

Texture(w, h, resolution, multisample, hasFrame, frame) ==
    [width |-> w, height |-> h, resolution |-> resolution,
     multisample |-> multisample, hasFrame |-> hasFrame, filterFrame |-> frame]

UserTexture(t) ==
    Texture(Px(200), Px(200), 2, 0, FALSE, EmptyRect)

\* renderer.resolution, renderer.multisample
RendererResolution == 1
RendererMultisample == 0

\* the renderer as configured: the defaults (opaque background, summed
\* padding), or a transparent background with the old maximum padding
Setups ==
    {[backgroundAlpha |-> 1, useMaxPadding |-> FALSE],
     [backgroundAlpha |-> 0, useMaxPadding |-> TRUE]}

\* renderer.render(..., {renderTexture, transform}): target and projection
Renderings ==
    {<<NullTex, NoTransform>>, <<1, NoTransform>>,
     <<1, Translation(Px(4), -Px(2))>>}

(***************************************************************************)
(* FilterState (host class): constructor and clear().                      *)
(***************************************************************************)
\* a flip descriptor: the fraction flipY[0] and the sign flipY[1]
Frac(n, d) == [n |-> n, d |-> d]
FlipY(f0, f1) == [has |-> TRUE, f0 |-> f0, f1 |-> f1]
NoFlipY == [has |-> FALSE, f0 |-> Frac(0, 1), f1 |-> 0]
\* new Float32Array([0.0, 1.0])
NewFlipY == FlipY(Frac(0, 1), 1)

FilterState(id) ==
    [id |-> id, renderTexture |-> NullTex, target |-> 0, legacy |-> FALSE,
     resolution |-> 1, multisample |-> 0, sourceFrame |-> EmptyRect,
     destinationFrame |-> EmptyRect, bindingSourceFrame |-> EmptyRect,
     bindingDestinationFrame |-> EmptyRect, filters |-> <<>>,
     transform |-> NoTransform,
     \* IPictureFilterState of the simplified variant; undefined at first
     backdrop |-> NullTex, backdropFlip |-> NoFlipY]

\* state.clear()
clear(state) == [state EXCEPT !.target = 0, !.filters = <<>>, !.renderTexture = NullTex]

\* defaultFilterStack = [{}]
BaseEntry == [FilterState(0) EXCEPT !.renderTexture = Undefined]

(***************************************************************************)
(* State.                                                                  *)
(***************************************************************************)
VARIABLES
    defaultFilterStack,   \* the region stack, base entry first
    statePool,            \* free FilterState objects
    nextStateId,          \* FilterState objects constructed so far
    current,              \* renderer.renderTexture.current
    rtSourceFrame,        \* renderer.renderTexture.sourceFrame
    rtDestinationFrame,   \* renderer.renderTexture.destinationFrame
    projectionTransform,  \* renderer.projection.transform
    textures,             \* application textures and pooled textures in use
    filterObj,            \* per filter: uniforms, _backdropActive, state
    globalUniforms,       \* the filter uniform group
    activeState,          \* this.activeState (id of the FilterState)
    texUnits,             \* renderer.texture: currentLocation, boundTextures[0]
    hadBackbufferError,   \* module flag
    useMaxPadding,        \* this.useMaxPadding
    backgroundAlpha,      \* renderer.background.alpha
    pushes,               \* opens made so far
    opened,               \* per open region: what its open acquired
    diagnostic,           \* the console: a capture failed, warnings printed
    closed3,              \* the 3-filter chains closed: what pop acquired
    last                  \* the last call and what it did

vars == <<defaultFilterStack, statePool, nextStateId, current, rtSourceFrame,
          rtDestinationFrame, projectionTransform, textures, filterObj,
          globalUniforms, activeState, texUnits, hadBackbufferError,
          useMaxPadding, backgroundAlpha, pushes, opened, diagnostic, closed3, last>>

(***************************************************************************)
(* The texture pool (host): getOptimalFilterTexture, returnFilterTexture.  *)
(***************************************************************************)
FreshTexture(txs) ==
    CHOOSE n \in 1 .. (Cardinality(DOMAIN txs) + 1) :
        /\ n \notin DOMAIN txs
        /\ \A m \in 1 .. (n - 1) : m \in DOMAIN txs

\* the pool's texture for a request: power-of-two pixel size, tagged with
\* the requested resolution and sample count
PoolTexture(minWidth, minHeight, resolution, multisample) ==
    LET pw == nextPow2(CeilPixels(minWidth * resolution, Unit))
        ph == nextPow2(CeilPixels(minHeight * resolution, Unit))
    IN  Texture((pw * Unit) \div resolution, (ph * Unit) \div resolution,
                resolution, multisample, FALSE, EmptyRect)

\* returnFilterTexture(texture): back to the pool, filterFrame dropped
returnFilterTexture(txs, t) ==
    [u \in (DOMAIN txs) \ ({t} \ UserTextures) |-> txs[u]]

(***************************************************************************)
(* bindForceLocation (TextureSystem mixin).                                *)
(***************************************************************************)
bindForceLocation(units, texture, location) ==
    [currentLocation |-> location,
     boundTextures |-> [units.boundTextures EXCEPT ![location + 1] = texture]]

(***************************************************************************)
(* prepareBackdrop(bounds, flipY).  flipY is [has, f0, f1] with f0 the     *)
(* fraction f0.n / f0.d.  The result carries the returned texture (NullTex *)
(* for null), the flip descriptor as left, and the pool, the texture units *)
(* and the module flag as left.                                            *)
(***************************************************************************)
NoCopy == [x |-> 0, y |-> 0, w |-> 0, h |-> 0]

\* flipY[0] after the texture is acquired
flipFraction(flip1, h, rtHeight) == IF flip1 < 0 THEN Frac(h, rtHeight) ELSE Frac(0, 1)

\* a variant that measures y from the bottom edge for every target
copyRectFlipped(bounds, fr, tf, flip1, resolution) ==
    LET x == RoundDiv((bounds.x - fr.x + tf.tx) * resolution, Unit)
        dy == bounds.y - fr.y + tf.ty
        y == RoundDiv((fr.height - (dy + bounds.height)) * resolution, Unit)
        w == RoundDiv(bounds.width * resolution, Unit)
        h == RoundDiv(bounds.height * resolution, Unit)
    IN  [x |-> x, y |-> y, w |-> w, h |-> h]

\* the pixel rectangle handed to copyTexSubImage2D
copyRect(bounds, fr, tf, flip1, resolution) ==
    LET x == RoundDiv((bounds.x - fr.x + tf.tx) * resolution, Unit)
        dy == bounds.y - fr.y + tf.ty
        y == RoundDiv((IF flip1 < 0 THEN fr.height - (dy + bounds.height) ELSE dy)
                          * resolution, Unit)
        w == RoundDiv(bounds.width * resolution, Unit)
        h == RoundDiv(bounds.height * resolution, Unit)
    IN  [x |-> x, y |-> y, w |-> w, h |-> h]

\* a variant that takes an alpha of exactly 1 as readable
backbufferUnreadableStrict(renderTarget, alpha) == renderTarget = NullTex /\ alpha > 1

\* a variant that warns at every failure
emitsWarningAlways(hadError) == TRUE

\* if (!hadBackbufferError): the failure is reported
emitsWarning(hadError) == ~hadError

\* backbuffer bound and not readable
backbufferUnreadable(renderTarget, alpha) == renderTarget = NullTex /\ alpha >= 1

prepareBackdrop(env, bounds, flipY) ==
    LET renderTarget == current
        fr == rtSourceFrame
        \* renderer.projection.transform || Matrix.IDENTITY
        tf == projectionTransform
        call(rt, resolution, flipAfter, units, done, c, warned) ==
            [bounds |-> bounds, frame |-> fr, transform |-> tf,
             renderTarget |-> renderTarget, alpha |-> backgroundAlpha,
             flipBefore |-> flipY, unitsBefore |-> env.texUnits,
             rt |-> rt, resolution |-> resolution, flipAfter |-> flipAfter,
             unitsAfter |-> units, copied |-> done, copy |-> c, warned |-> warned]
    IN  IF backbufferUnreadable(renderTarget, backgroundAlpha)
        THEN [rt |-> NullTex, flipY |-> flipY, env |->
                 [env EXCEPT !.hadBackbufferError = TRUE,
                             !.warnings = @ + (IF emitsWarning(env.hadBackbufferError)
                                               THEN 1 ELSE 0)],
              call |-> call(NullTex, 1, flipY, env.texUnits, FALSE, NoCopy,
                            emitsWarning(env.hadBackbufferError))]
        ELSE
        LET resolution == IF renderTarget # NullTex
                          THEN env.textures[renderTarget].resolution
                          ELSE RendererResolution
            flip1 == IF renderTarget # NullTex THEN 1 ELSE -1
            c == copyRect(bounds, fr, tf, flip1, resolution)
            id == FreshTexture(env.textures)
            got == PoolTexture(Px(c.w), Px(c.h), 1, 0)
            flip == FlipY(flipFraction(flip1, c.h, got.height \div Unit), flip1)
            \* rt.filterFrame = fr; rt.setResolution(resolution)
            rt == Texture(got.width \div resolution, got.height \div resolution,
                          resolution, 0, TRUE, fr)
        IN  [rt |-> id, flipY |-> flip, env |->
                 [env EXCEPT !.textures = (id :> rt) @@ env.textures,
                             !.acquired = Append(@, id),
                             !.texUnits = bindForceLocation(@, id, 0)],
             call |-> call(id, resolution, flip, bindForceLocation(env.texUnits, id, 0),
                           TRUE, c, FALSE)]

(***************************************************************************)
(* pushWithCheck: the fold over the chain (lines 82-109).                  *)
(***************************************************************************)
\* filter.resolution || currentResolution
filterResolution(f, currentResolution) ==
    IF FilterDef(f).resolution # 0 THEN FilterDef(f).resolution ELSE currentResolution

\* filter.multisample ?? currentMultisample
filterMultisample(f, currentMultisample) ==
    IF FilterDef(f).multisample # Unset THEN FilterDef(f).multisample
    ELSE currentMultisample

\* a variant without the fallback for an undeclared legacy
filterLegacyDeclared(f) == filterObj[f].legacy = "true"

\* filter.legacy ?? true
filterLegacy(f) ==
    IF filterObj[f].legacy = "unset" THEN TRUE ELSE filterObj[f].legacy = "true"

\* a variant that takes the later filter's resolution
foldResolutionLast(resolution, r) == r

\* a variant that always sums
foldPaddingSum(useMax, padding, p) == padding + p

foldResolution(resolution, r) == Min(resolution, r)
foldMultisample(multisample, m) == Min(multisample, m)
foldPadding(useMax, padding, p) == IF useMax THEN Max(padding, p) ELSE padding + p
foldAutoFit(autoFit, a) == autoFit /\ a
foldLegacy(legacy, l) == legacy \/ l

RECURSIVE foldFilters(_, _, _, _, _, _)
foldFilters(filters, i, acc, currentResolution, currentMultisample, useMax) ==
    IF i > Len(filters) THEN acc
    ELSE foldFilters(filters, i + 1,
            [resolution |-> foldResolution(acc.resolution,
                                filterResolution(filters[i], currentResolution)),
             multisample |-> foldMultisample(acc.multisample,
                                filterMultisample(filters[i], currentMultisample)),
             padding |-> foldPadding(useMax, acc.padding, FilterDef(filters[i]).padding),
             autoFit |-> foldAutoFit(acc.autoFit, FilterDef(filters[i]).autoFit),
             legacy |-> foldLegacy(acc.legacy, filterLegacy(filters[i]))],
            currentResolution, currentMultisample, useMax)

resolveChain(filters, currentResolution, currentMultisample, useMax) ==
    foldFilters(filters, 2,
        [resolution |-> filterResolution(filters[1], currentResolution),
         multisample |-> filterMultisample(filters[1], currentMultisample),
         padding |-> FilterDef(filters[1]).padding,
         autoFit |-> FilterDef(filters[1]).autoFit,
         legacy |-> filterLegacy(filters[1])],
        currentResolution, currentMultisample, useMax)

(***************************************************************************)
(* pushWithCheck: the source frame (lines 123-170).                        *)
(***************************************************************************)
zeroed(r) == Rect(r.x, r.y, 0, 0)

\* the visible source frame in world space
sourceFrameProjected ==
    IF projectionTransform.set
    THEN transformAABB(-projectionTransform.tx, -projectionTransform.ty, rtSourceFrame)
    ELSE rtSourceFrame

\* a variant that keeps a non-autoFit frame lying outside the visible frame
clipFrameNoCull(autoFit, padded, visible) ==
    IF autoFit
    THEN LET f == fit(padded, visible)
         IN  IF f.width <= 0 \/ f.height <= 0 THEN zeroed(f) ELSE f
    ELSE padded

\* lines 141-161: the frame before rounding
clipFrame(autoFit, padded, visible) ==
    IF autoFit
    THEN LET f == fit(padded, visible)
         IN  IF f.width <= 0 \/ f.height <= 0 THEN zeroed(f) ELSE f
    ELSE IF ~intersects(padded, visible) THEN zeroed(padded) ELSE padded

\* lines 128, 154: whether a backdrop may be captured
canUseBackdrop(autoFit, currentMultisample, padded) ==
    IF autoFit THEN currentMultisample = 0
    ELSE containsRect(rtSourceFrame, padded)

\* line 172
emptyBounds(checkEmptyBounds, sourceFrame) ==
    checkEmptyBounds /\ sourceFrame.width <= Px(1) /\ sourceFrame.height <= Px(1)

(***************************************************************************)
(* pushWithCheck: the backdrop uniforms (lines 182-224).  acc carries the  *)
(* filter objects, backdrop, backdropFlip, the calls made and env.         *)
(***************************************************************************)
RECURSIVE detectBackdrop(_, _, _, _)
detectBackdrop(filters, i, sourceFrame, acc) ==
    IF i > Len(filters) THEN acc
    ELSE LET f == filters[i]
             bName == FilterDef(f).backdropUniformName
         IN  IF bName = "" THEN detectBackdrop(filters, i + 1, sourceFrame, acc)
             ELSE
             LET flip0 == IF acc.filterObj[f].flipY.has THEN acc.filterObj[f].flipY
                          ELSE NewFlipY
                 first == acc.backdrop = NullTex
                 pb == prepareBackdrop(acc.env, sourceFrame, flip0)
                 backdrop == IF first THEN pb.rt ELSE acc.backdrop
                 backdropFlip == IF first THEN pb.flipY ELSE acc.backdropFlip
                 flip == IF first THEN pb.flipY
                         ELSE [flip0 EXCEPT !.f0 = backdropFlip.f0, !.f1 = backdropFlip.f1]
             IN  detectBackdrop(filters, i + 1, sourceFrame,
                    [filterObj |-> [acc.filterObj EXCEPT
                                       ![f].flipY = flip,
                                       ![f].backdrop = backdrop,
                                       ![f].backdropActive =
                                           IF backdrop # NullTex THEN TRUE ELSE @],
                     backdrop |-> backdrop,
                     backdropFlip |-> backdropFlip,
                     calls |-> IF first THEN Append(acc.calls, pb.call) ELSE acc.calls,
                     env |-> IF first THEN pb.env ELSE acc.env])

(***************************************************************************)
(* What a call did (history, read by the properties only).                 *)
(***************************************************************************)
NoFold == [resolution |-> 0, multisample |-> 0, padding |-> 0,
           autoFit |-> FALSE, legacy |-> FALSE]

NoOpen == [acquired |-> <<>>, filters |-> <<>>, nested |-> FALSE, enclosed |-> FALSE,
           shared |-> FALSE, legacy |-> <<>>, state |-> 0, bound |-> NullTex,
           transform |-> NoTransform, backdrop |-> NullTex, flipY |-> NoFlipY,
           resolution |-> 0, attempted |-> FALSE]

\* the filter objects of a chain
Range(s) == {s[k] : k \in 1 .. Len(s)}

NoCall ==
    [op |-> "none", target |-> 0, filters |-> <<>>, checkEmptyBounds |-> FALSE,
     ret |-> FALSE, depth |-> 0, preStack |-> <<>>, preCurrent |-> NullTex,
     preTransform |-> NoTransform, preFilterArea |-> <<0, 0, 0, 0>>,
     preFilterClamp |-> "", preTexUnits |-> <<>>, fold |-> NoFold,
     currentResolution |-> 0, currentMultisample |-> 0, padded |-> EmptyRect, visible |-> EmptyRect,
     rounded |-> EmptyRect, canUseBackdrop |-> FALSE, acquired |-> <<>>,
     requests |-> <<>>, returned |-> <<>>, calls |-> <<>>, passes |-> <<>>,
     blits |-> 0, warnings |-> 0, preFailed |-> FALSE, opened |-> NoOpen]

Request(w, h, resolution, multisample) ==
    [width |-> w, height |-> h, resolution |-> resolution, multisample |-> multisample]

(***************************************************************************)
(* Initial state: the systems as constructed, the backbuffer bound.        *)
(***************************************************************************)
\* a FilterState the host's own push and pop left in the pool before the
\* mixins replaced them: the host's push writes state.multisample, and
\* clear() keeps it
HostState == [FilterState(1) EXCEPT !.multisample = 4]

Start(pool) ==
    /\ defaultFilterStack = <<BaseEntry>>
    /\ statePool = pool
    /\ nextStateId = Len(pool) + 1
    /\ current = NullTex
    /\ rtSourceFrame = ScreenFrame
    /\ rtDestinationFrame = ScreenFrame
    /\ projectionTransform = NoTransform
    /\ textures = [t \in UserTextures |-> UserTexture(t)]
    /\ filterObj = [f \in Filters |->
                       [backdrop |-> NullTex, flipY |-> NoFlipY,
                        backdropActive |-> FALSE, state |-> f,
                        legacy |-> FilterDef(f).legacy]]
    /\ globalUniforms = [outputFrame |-> EmptyRect, resolution |-> 1,
                         inputSize |-> <<0, 0>>, inputPixel |-> <<0, 0>>,
                         filterArea |-> <<0, 0, 0, 0>>,
                         filterClamp |-> "filterClamp"]
    /\ activeState = 0
    /\ texUnits = [currentLocation |-> 0, boundTextures |-> <<NullTex, NullTex>>]
    /\ hadBackbufferError = FALSE
    /\ diagnostic = [failed |-> FALSE, warnings |-> 0]
    /\ \E setup \in Setups :
        /\ useMaxPadding = setup.useMaxPadding
        /\ backgroundAlpha = setup.backgroundAlpha
    /\ pushes = 0
    /\ opened = <<>>
    /\ closed3 = {}
    /\ last = NoCall

\* the mixins applied to a fresh filter system
Init == Start(<<>>)

\* the mixins applied to a filter system the host has already used
InitRecycled == Start(<<HostState>>)

(***************************************************************************)
(* renderer.render(object, {renderTexture, transform}): the scene binds    *)
(* its target and projection while no region is open.                      *)
(***************************************************************************)
render(renderTexture, transform) ==
    /\ Len(defaultFilterStack) = 1
    /\ <<renderTexture, transform>> # <<current, projectionTransform>>
    /\ current' = renderTexture
    /\ rtSourceFrame' = ScreenFrame
    /\ rtDestinationFrame' = ScreenFrame
    /\ projectionTransform' = transform
    /\ last' = [NoCall EXCEPT !.op = "render"]
    /\ UNCHANGED <<defaultFilterStack, statePool, nextStateId, textures, filterObj,
                   globalUniforms, activeState, texUnits, hadBackbufferError,
                   useMaxPadding, backgroundAlpha, pushes, opened, diagnostic,
                   closed3>>

(***************************************************************************)
(* pushWithCheck(target, filters, checkEmptyBounds).  The clear of the new *)
(* target (lines 248-258) changes pixels only, which the model leaves out. *)
(***************************************************************************)
\* lines 66-170: the chain's settings and the rounded source frame
resolveRegion(target, filters) ==
    LET currentResolution == IF current # NullTex THEN textures[current].resolution
                             ELSE RendererResolution
        currentMultisample == IF current # NullTex THEN textures[current].multisample
                              ELSE RendererMultisample
    IN  LET r == resolveChain(filters, currentResolution, currentMultisample,
                              useMaxPadding)
        IN  LET padded == pad(TargetBounds(target), r.padding)
                visible == sourceFrameProjected
            IN  [fold |-> r,
                 currentResolution |-> currentResolution,
                 currentMultisample |-> currentMultisample,
                 padded |-> padded,
                 visible |-> visible,
                 canUseBackdrop |-> canUseBackdrop(r.autoFit, currentMultisample, padded),
                 sourceFrame |-> roundFrame(clipFrame(r.autoFit, padded, visible),
                                            currentResolution, rtSourceFrame,
                                            rtDestinationFrame, projectionTransform)]

\* a variant that keeps the chain's resolution
regionResolutionChain(backdrop, txs, resolution) == resolution

\* lines 220-223: a captured backdrop's resolution replaces the chain's
regionResolution(backdrop, txs, resolution) ==
    IF backdrop # NullTex THEN txs[backdrop].resolution ELSE resolution

\* lines 181-227: the backdrop uniforms and the working texture
acquireTextures(g, filters) ==
    LET env0 == [textures |-> textures, acquired |-> <<>>, texUnits |-> texUnits,
                 hadBackbufferError |-> hadBackbufferError, warnings |-> 0]
        d0 == [filterObj |-> filterObj, backdrop |-> NullTex,
               backdropFlip |-> NoFlipY, calls |-> <<>>, env |-> env0]
    IN  \* evaluated once
        LET d == CHOOSE v \in {IF g.canUseBackdrop
                               THEN detectBackdrop(filters, 1, g.sourceFrame, d0)
                               ELSE d0} : TRUE
        IN  LET resolution == regionResolution(d.backdrop, d.env.textures,
                                                   g.fold.resolution)
                id == FreshTexture(d.env.textures)
                got == PoolTexture(g.sourceFrame.width, g.sourceFrame.height,
                                   resolution, g.fold.multisample)
            IN  [d |-> d, resolution |-> resolution, id |-> id,
                 \* state.renderTexture.filterFrame = state.sourceFrame
                 rt |-> [got EXCEPT !.hasFrame = TRUE, !.filterFrame = g.sourceFrame],
                 request |-> Request(g.sourceFrame.width, g.sourceFrame.height,
                                     resolution, g.fold.multisample)]

\* a variant that leaves the base entry alone
recordTargetNever(filterStack, renderTexture) == filterStack

\* lines 111-114: the base entry remembers the target bound outside any region
recordTarget(filterStack, renderTexture) ==
    IF Len(filterStack) = 1
    THEN [filterStack EXCEPT ![1].renderTexture = renderTexture]
    ELSE filterStack

\* a variant that leaves the state in the pool
poolAfterTakeKept(pool) == pool

\* line 64: what this.statePool.pop() leaves in the pool
poolAfterTake(pool) ==
    IF Len(pool) > 0 THEN SubSeq(pool, 1, Len(pool) - 1) ELSE pool

\* a variant that keeps the frame's position
viewportAtFrame(sourceFrame) == sourceFrame

\* lines 233-238: the viewport the working texture is bound with
viewport(sourceFrame) == Rect(0, 0, sourceFrame.width, sourceFrame.height)

\* a variant that saves no transform
savedTransformNone(transform) == NoTransform

\* line 244: state.transform = renderer.projection.transform
savedTransform(transform) == transform

pushWithCheckAs(op, target, filters, checkEmptyBounds) ==
    /\ pushes < MaxPush
    /\ Len(defaultFilterStack) <= MaxDepth
    /\ \E g \in {resolveRegion(target, filters)} :
        LET filterStack == defaultFilterStack
            \* this.statePool.pop() || new FilterState()
            pooled == Len(statePool) > 0
            state0 == IF pooled THEN statePool[Len(statePool)]
                      ELSE FilterState(nextStateId)
            pool0 == poolAfterTake(statePool)
            stack1 == recordTarget(filterStack, current)
            state1 == [state0 EXCEPT !.resolution = g.fold.resolution,
                                     !.legacy = g.fold.legacy,
                                     !.target = target,
                                     !.sourceFrame = g.sourceFrame]
            seen == [NoCall EXCEPT !.op = op, !.target = target, !.filters = filters,
                        !.checkEmptyBounds = checkEmptyBounds,
                        !.depth = Len(filterStack), !.preStack = filterStack,
                        !.preCurrent = current, !.preTransform = projectionTransform,
                        !.preTexUnits = texUnits, !.preFailed = diagnostic.failed,
                        !.fold = g.fold, !.currentResolution = g.currentResolution,
                        !.currentMultisample = g.currentMultisample,
                        !.padded = g.padded, !.visible = g.visible,
                        !.rounded = g.sourceFrame,
                        !.canUseBackdrop = g.canUseBackdrop]
        IN  /\ pushes' = pushes + 1
            /\ nextStateId' = IF pooled THEN nextStateId ELSE nextStateId + 1
            /\ IF emptyBounds(checkEmptyBounds, g.sourceFrame)
               THEN \* lines 174-178
                    /\ defaultFilterStack' = stack1
                    /\ statePool' = Append(pool0, clear(state1))
                    /\ last' = [seen EXCEPT !.ret = FALSE]
                    /\ UNCHANGED <<current, rtSourceFrame, rtDestinationFrame,
                                   projectionTransform, textures, filterObj, texUnits,
                                   hadBackbufferError, opened, diagnostic>>
               ELSE \E a \in {acquireTextures(g, filters)} :
                    LET acquired == Append(a.d.env.acquired, a.id)
                        state2 == [state1 EXCEPT
                                      !.resolution = a.resolution,
                                      !.renderTexture = a.id,
                                      !.filters = filters,
                                      !.destinationFrame.width = a.rt.width,
                                      !.destinationFrame.height = a.rt.height,
                                      !.bindingSourceFrame = rtSourceFrame,
                                      !.bindingDestinationFrame = rtDestinationFrame,
                                      !.transform = savedTransform(projectionTransform)]
                    IN  /\ defaultFilterStack' = Append(stack1, state2)
                        /\ statePool' = pool0
                        /\ textures' = (a.id :> a.rt) @@ a.d.env.textures
                        /\ filterObj' = a.d.filterObj
                        /\ texUnits' = a.d.env.texUnits
                        /\ hadBackbufferError' = a.d.env.hadBackbufferError
                        /\ diagnostic' =
                               [failed |-> diagnostic.failed
                                    \/ \E k \in 1 .. Len(a.d.calls) : ~a.d.calls[k].copied,
                                warnings |-> diagnostic.warnings + a.d.env.warnings]
                        /\ projectionTransform' = NoTransform
                        \* renderTextureSystem.bind(renderTexture, sourceFrame, destinationFrame)
                        /\ current' = a.id
                        /\ rtSourceFrame' = g.sourceFrame
                        /\ rtDestinationFrame' = viewport(g.sourceFrame)
                        /\ opened' = Append([k \in 1 .. Len(opened) |->
                                                [opened[k] EXCEPT
                                                    !.nested = TRUE,
                                                    !.shared = @ \/
                                                        (Range(opened[k].filters)
                                                         \cap Range(filters) # {})]],
                                            [acquired |-> acquired, filters |-> filters,
                                             nested |-> FALSE,
                                             enclosed |-> Len(opened) > 0,
                                             shared |-> \E k \in 1 .. Len(opened) :
                                                 Range(opened[k].filters)
                                                 \cap Range(filters) # {},
                                             state |-> state2.id,
                                             bound |-> current,
                                             transform |-> projectionTransform,
                                             backdrop |-> a.d.backdrop,
                                             flipY |-> a.d.backdropFlip,
                                             resolution |-> a.resolution,
                                             attempted |-> Len(a.d.calls) > 0,
                                             legacy |-> [k \in 1 .. Len(filters) |->
                                                 filterObj[filters[k]].legacy]])
                        /\ last' = [seen EXCEPT !.ret = TRUE, !.acquired = acquired,
                                       !.requests = <<a.request>>,
                                       !.calls = a.d.calls,
                                       !.warnings = a.d.env.warnings]
    /\ UNCHANGED <<globalUniforms, activeState, useMaxPadding, backgroundAlpha, closed3>>

pushWithCheck(target, filters) == pushWithCheckAs("pushWithCheck", target, filters, TRUE)

\* push(target, filters)
push(target, filters) == pushWithCheckAs("push", target, filters, FALSE)

(***************************************************************************)
(* pop.  A world w carries what the passes change: the pool, the binding,  *)
(* the projection, the texture units, the filter objects and the log.      *)
(***************************************************************************)
\* renderTextureSystem.bind(texture, sourceFrame, destinationFrame)
bind(w, texture, sourceFrame, destinationFrame) ==
    [w EXCEPT !.current = texture, !.rtSourceFrame = sourceFrame,
              !.rtDestinationFrame = destinationFrame]

\* FilterSystem.bindAndClear(filterTexture, clearMode) of the host
bindAndClear(w, filterTexture, top, active) ==
    LET w1 == [w EXCEPT !.projectionTransform =
                   IF filterTexture = top.renderTexture THEN active.transform
                   ELSE NoTransform]
    IN  IF filterTexture \in DOMAIN w.textures /\ w.textures[filterTexture].hasFrame
        THEN LET ff == w.textures[filterTexture].filterFrame
             IN  bind(w1, filterTexture, ff, Rect(0, 0, ff.width, ff.height))
        ELSE IF filterTexture # top.renderTexture
        THEN bind(w1, filterTexture, ScreenFrame, ScreenFrame)
        ELSE bind(w1, filterTexture, active.bindingSourceFrame,
                  active.bindingDestinationFrame)

\* filters[i].apply(this, input, output, clearMode, state): the host's
\* Filter.apply, which draws input into output through applyFilter
apply(w, f, input, output, clearMode, top, active) ==
    LET w1 == bindAndClear(w, output, top, active)
        uniform == w.filterObj[f].backdrop
        sampled == FilterDef(f).backdropUniformName # "" /\ uniform # NullTex
    IN  [w1 EXCEPT
            !.passes = Append(@, [filter |-> f, input |-> input, output |-> output,
                                  clearMode |-> clearMode, backdrop |-> uniform,
                                  flipY |-> w.filterObj[f].flipY,
                                  state |-> w.filterObj[f].state,
                                  \* the uniform when apply returns
                                  after |-> uniform,
                                  \* the textures returned by then
                                  returnedBefore |-> w.returned,
                                  \* whether the flip uniform was written
                                  \* for this pass
                                  flipCopied |-> FALSE]),
            !.filterObj[f].legacy =
                IF FilterDef(f).programLegacy THEN "true" ELSE "false",
            !.texUnits = [currentLocation |-> IF sampled THEN 1 ELSE 0,
                          boundTextures |-> <<input, IF sampled THEN uniform
                                                     ELSE @.boundTextures[2]>>]]

\* this.getOptimalFilterTexture(flip.width, flip.height, state.resolution),
\* then flop.filterFrame = flip.filterFrame
acquireFlop(w, flip, resolution) ==
    LET id == FreshTexture(w.textures)
        got == PoolTexture(w.textures[flip].width, w.textures[flip].height,
                           resolution, 0)
    IN  [w EXCEPT !.textures = (id :> [got EXCEPT
                                   !.hasFrame = w.textures[flip].hasFrame,
                                   !.filterFrame = w.textures[flip].filterFrame])
                               @@ w.textures,
                  !.acquired = Append(@, id)]

\* a variant that keeps the texture instead of returning it
releaseDropped(w, texture) == w

\* this.returnFilterTexture(texture)
release(w, texture) ==
    [w EXCEPT !.textures = returnFilterTexture(@, texture),
              !.returned = Append(@, texture)]

\* a variant that takes the new flop one pass later
reallocatesLater(i, multisample) == i = 2 /\ multisample > 1

\* line 354: a new flop for the second pass of a multisampled region
reallocates(i, multisample) == i = 1 /\ multisample > 1

\* lines 352-371: passes i .. filterLen - 2 (0-based); yields <<w, flip, flop>>
\* a variant that keeps reading the same texture
swapNever(flip, flop) == <<flip, flop>>

\* lines 367-370: const t = flip; flip = flop; flop = t
swap(flip, flop) == <<flop, flip>>

\* line 375: the working texture left out of the ping-pong is returned too
returnsWorking(i, multisample) == i > 1 /\ multisample > 1

RECURSIVE pingPong(_, _, _, _, _, _, _, _)
pingPong(w, filters, filterLen, i, flip, flop, top, active) ==
    IF i >= filterLen - 1 THEN <<w, flip, flop>>
    ELSE LET again == reallocates(i, active.multisample)
             w1 == IF again THEN acquireFlop(w, flip, active.resolution) ELSE w
             flop1 == IF again THEN w1.acquired[Len(w1.acquired)] ELSE flop
             next == swap(flip, flop1)
         IN  pingPong(apply(w1, filters[i + 1], flip, flop1, "CLEAR", top, active),
                      filters, filterLen, i + 1, next[1], next[2], top, active)

\* lines 333-382
runChain(w, filters, filterLen, top, active) ==
    IF filterLen = 1
    THEN release(apply(w, filters[1], active.renderTexture, top.renderTexture,
                       "BLEND", top, active),
                 active.renderTexture)
    ELSE LET w0 == acquireFlop(w, active.renderTexture, active.resolution)
         IN  LET p == pingPong(w0, filters, filterLen, 0, active.renderTexture,
                               w0.acquired[Len(w0.acquired)], top, active)
             IN  LET w1 == apply(p[1], filters[filterLen], p[2], top.renderTexture,
                                 "BLEND", top, active)
                     w2 == IF returnsWorking(filterLen - 1, active.multisample)
                           THEN release(w1, active.renderTexture) ELSE w1
                 IN  release(release(w2, p[2]), p[3])

\* lines 391-405: release the backdrop
RECURSIVE releaseBackdrop(_, _, _, _)
releaseBackdrop(w, filters, i, backdropFree) ==
    IF i > Len(filters) THEN w
    ELSE LET f == filters[i]
         IN  IF ~w.filterObj[f].backdropActive
             THEN releaseBackdrop(w, filters, i + 1, backdropFree)
             ELSE LET w1 == IF backdropFree THEN w
                            ELSE release(w, w.filterObj[f].backdrop)
                  IN  releaseBackdrop(
                          [w1 EXCEPT !.filterObj[f].backdrop = NullTex,
                                     !.filterObj[f].backdropActive = FALSE],
                          filters, i + 1, TRUE)

\* lines 279-312: the uniform group
writeUniforms(g, state) ==
    LET inputSize == <<state.destinationFrame.width, state.destinationFrame.height>>
        g1 == [g EXCEPT !.outputFrame = state.sourceFrame,
                        !.resolution = state.resolution,
                        !.inputSize = inputSize,
                        !.inputPixel = <<RoundDiv(inputSize[1] * state.resolution, Unit),
                                         RoundDiv(inputSize[2] * state.resolution, Unit)>>]
    IN  IF state.legacy
        THEN [g1 EXCEPT !.filterArea = <<state.destinationFrame.width,
                                         state.destinationFrame.height,
                                         state.sourceFrame.x, state.sourceFrame.y>>,
                        !.filterClamp = "inputClamp"]
        ELSE g1

\* a variant that runs a trivial last filter like any other
trivialLastNever(filters) == FALSE

\* lines 323-331: a trivial last filter is skipped
trivialLast(filters) ==
    Len(filters) >= 2 /\ FilterDef(filters[Len(filters)]).trivial

\* the whole of pop from line 316 on, as the world it leaves
closeRegion(state, top) ==
    LET filters == state.filters
        n == Len(filters)
        skip == trivialLast(filters)
        filterLen == IF skip THEN n - 1 ELSE n
        w0 == [textures |-> textures, acquired |-> <<>>, returned |-> <<>>,
               texUnits |-> texUnits, current |-> current,
               rtSourceFrame |-> rtSourceFrame,
               rtDestinationFrame |-> rtDestinationFrame,
               projectionTransform |-> projectionTransform,
               filterObj |-> filterObj, passes |-> <<>>]
        tmpState == IF skip THEN filterObj[filters[n - 1]].state ELSE 0
        w1 == IF skip
              THEN [w0 EXCEPT !.filterObj[filters[n - 1]].state =
                                  filterObj[filters[n]].state]
              ELSE w0
    IN  LET w2 == runChain(w1, filters, filterLen, top, state)
        IN  LET w3 == IF skip /\ tmpState # 0
                      THEN [w2 EXCEPT !.filterObj[filters[filterLen]].state = tmpState]
                      ELSE w2
            IN  releaseBackdrop(w3, filters, 1, FALSE)

pop ==
    /\ Len(defaultFilterStack) > 1
    /\ LET n == Len(defaultFilterStack)
           state == defaultFilterStack[n]
           filterStack == SubSeq(defaultFilterStack, 1, n - 1)
           lastState == filterStack[n - 1]
       IN  \E w \in {closeRegion(state, lastState)} :
           /\ defaultFilterStack' = filterStack
           /\ activeState' = state.id
           /\ globalUniforms' = writeUniforms(globalUniforms, state)
           /\ textures' = w.textures
           /\ texUnits' = w.texUnits
           /\ current' = w.current
           /\ rtSourceFrame' = w.rtSourceFrame
           /\ rtDestinationFrame' = w.rtDestinationFrame
           /\ projectionTransform' = w.projectionTransform
           /\ filterObj' = w.filterObj
           /\ statePool' = Append(statePool, clear(state))
           /\ opened' = SubSeq(opened, 1, Len(opened) - 1)
           /\ closed3' = IF Len(state.filters) # 3 THEN closed3
                          ELSE closed3 \cup {[trivial |-> trivialLast(state.filters),
                                               multisample |-> state.multisample,
                                               acquired |-> Len(w.acquired)]}
           /\ last' = [NoCall EXCEPT
                          !.op = "pop", !.ret = TRUE, !.filters = state.filters,
                          !.target = state.target,
                          !.depth = n, !.preStack = defaultFilterStack,
                          !.preCurrent = current,
                          !.preTransform = projectionTransform,
                          !.preFilterArea = globalUniforms.filterArea,
                          !.preFilterClamp = globalUniforms.filterClamp,
                          !.acquired = w.acquired, !.returned = w.returned,
                          !.passes = w.passes,
                          !.blits = IF textures[state.renderTexture].multisample > 1
                                    THEN 1 ELSE 0,
                          !.opened = opened[Len(opened)]]
    /\ UNCHANGED <<nextStateId, hadBackbufferError, diagnostic, useMaxPadding, backgroundAlpha,
                   pushes>>

Next ==
    \/ \E r \in Renderings : render(r[1], r[2])
    \/ \E o \in CheckedOpens : pushWithCheck(o[1], o[2])
    \/ \E o \in UncheckedOpens : push(o[1], o[2])
    \/ pop

Spec == Init /\ [][Next]_vars

SpecRecycled == InitRecycled /\ [][Next]_vars

(***************************************************************************)
(* The simplified variant of the mixin, src/unnamed/part_001: the region   *)
(* state carries backdrop and backdropFlip, and every pass goes through    *)
(* applyFilter.  It reads filter.resolution without a fallback, so its     *)
(* scene uses filters that declare one.                                    *)
(***************************************************************************)
\* the calls pushWithCheck(target, filters) the scene makes
CheckedOpens001 ==
    ({1} \X {<<1>>, <<5>>, <<1, 5>>, <<5, 3>>, <<5, 4>>, <<1, 5, 3>>, <<1, 5, 4>>})
    \cup ({2, 3, 4, 6} \X {<<5>>})
    \cup ({3, 5, 6} \X {<<4>>})

\* the calls push(target, filters) the scene makes
UncheckedOpens001 == {<<1, <<5>>>>, <<7, <<4>>>>}

\* lines 79-95: the fold, on the declared values
RECURSIVE foldFilters001(_, _, _, _)
foldFilters001(filters, i, acc, useMax) ==
    IF i > Len(filters) THEN acc
    ELSE foldFilters001(filters, i + 1,
            [resolution |-> Min(acc.resolution, FilterDef(filters[i]).resolution),
             multisample |-> acc.multisample,
             padding |-> IF useMax THEN Max(acc.padding, FilterDef(filters[i]).padding)
                         ELSE acc.padding + FilterDef(filters[i]).padding,
             autoFit |-> acc.autoFit /\ FilterDef(filters[i]).autoFit,
             legacy |-> acc.legacy \/ filterObj[filters[i]].legacy = "true"],
            useMax)

resolveChain001(filters, useMax) ==
    foldFilters001(filters, 2,
        [resolution |-> FilterDef(filters[1]).resolution,
         \* getOptimalFilterTexture is called without a sample count
         multisample |-> 0,
         padding |-> FilterDef(filters[1]).padding,
         autoFit |-> FilterDef(filters[1]).autoFit,
         legacy |-> filterObj[filters[1]].legacy = "true"],
        useMax)

\* lines 111-153: the frame the empty check tests and the frame kept
resolveRegion001(target, filters) ==
    LET currentResolution == IF current # NullTex THEN textures[current].resolution
                             ELSE RendererResolution
        currentMultisample == IF current # NullTex THEN textures[current].multisample
                              ELSE RendererMultisample
    IN  LET r == resolveChain001(filters, useMaxPadding)
        IN  LET padded == pad(TargetBounds(target), r.padding)
                visible == sourceFrameProjected
                clipped == IF r.autoFit THEN fit(padded, visible) ELSE padded
            IN  [fold |-> r,
                 currentResolution |-> currentResolution,
                 currentMultisample |-> currentMultisample,
                 padded |-> padded,
                 visible |-> visible,
                 canUseBackdrop |-> IF r.autoFit THEN TRUE
                                    ELSE containsRect(rtSourceFrame, padded),
                 clipped |-> clipped,
                 sourceFrame |-> ceil(roundFrame(clipped, currentResolution,
                                                 rtSourceFrame, rtDestinationFrame,
                                                 projectionTransform),
                                      r.resolution)]

\* lines 406-413: flipY[0] is written for the backbuffer only
flipFraction001(flip0, flip1, h, rtHeight) ==
    IF flip1 < 0 THEN Frac(h, rtHeight) ELSE flip0

\* lines 372-427
prepareBackdrop001(env, bounds, flipY) ==
    LET renderTarget == current
        fr == rtSourceFrame
        tf == projectionTransform
        call(rt, resolution, flipAfter, units, done, c, warned) ==
            [bounds |-> bounds, frame |-> fr, transform |-> tf,
             renderTarget |-> renderTarget, alpha |-> backgroundAlpha,
             flipBefore |-> flipY, unitsBefore |-> env.texUnits,
             rt |-> rt, resolution |-> resolution, flipAfter |-> flipAfter,
             unitsAfter |-> units, copied |-> done, copy |-> c, warned |-> warned]
    IN  IF backbufferUnreadable(renderTarget, backgroundAlpha)
        THEN [rt |-> NullTex, flipY |-> flipY, env |->
                 [env EXCEPT !.hadBackbufferError = TRUE,
                             !.warnings = @ + (IF emitsWarning(env.hadBackbufferError)
                                               THEN 1 ELSE 0)],
              call |-> call(NullTex, 1, flipY, env.texUnits, FALSE, NoCopy,
                            emitsWarning(env.hadBackbufferError))]
        ELSE
        LET resolution == IF renderTarget # NullTex
                          THEN env.textures[renderTarget].resolution
                          ELSE RendererResolution
            flip1 == IF renderTarget # NullTex THEN 1 ELSE -1
            c == copyRect(bounds, fr, tf, flip1, resolution)
            id == FreshTexture(env.textures)
            got == PoolTexture(Px(c.w), Px(c.h), 1, 0)
            flip == FlipY(flipFraction001(flipY.f0, flip1, c.h, got.height \div Unit),
                          flip1)
            rt == Texture(got.width \div resolution, got.height \div resolution,
                          resolution, 0, TRUE, fr)
        IN  [rt |-> id, flipY |-> flip, env |->
                 [env EXCEPT !.textures = (id :> rt) @@ env.textures,
                             !.acquired = Append(@, id),
                             !.texUnits = bindForceLocation(@, id, 0)],
             call |-> call(id, resolution, flip, bindForceLocation(env.texUnits, id, 0),
                           TRUE, c, FALSE)]

\* lines 158-179: the flip uniforms and the region's backdrop
RECURSIVE detectBackdrop001(_, _, _, _)
detectBackdrop001(filters, i, sourceFrame, acc) ==
    IF i > Len(filters) THEN acc
    ELSE LET f == filters[i]
             bName == FilterDef(f).backdropUniformName
         IN  IF bName = "" THEN detectBackdrop001(filters, i + 1, sourceFrame, acc)
             ELSE
             LET first == acc.backdrop = NullTex
                 pb == prepareBackdrop001(acc.env, sourceFrame, NewFlipY)
             IN  detectBackdrop001(filters, i + 1, sourceFrame,
                    [filterObj |-> [acc.filterObj EXCEPT
                                       ![f].flipY = IF @.has THEN @ ELSE NewFlipY],
                     backdrop |-> IF first THEN pb.rt ELSE acc.backdrop,
                     backdropFlip |-> IF first THEN pb.flipY ELSE acc.backdropFlip,
                     calls |-> IF first THEN Append(acc.calls, pb.call) ELSE acc.calls,
                     env |-> IF first THEN pb.env ELSE acc.env])

\* lines 156-187: the backdrop and the working texture
acquireTextures001(g, state, filters) ==
    LET env0 == [textures |-> textures, acquired |-> <<>>, texUnits |-> texUnits,
                 hadBackbufferError |-> hadBackbufferError, warnings |-> 0]
        d0 == [filterObj |-> filterObj, backdrop |-> state.backdrop,
               backdropFlip |-> state.backdropFlip, calls |-> <<>>, env |-> env0]
    IN  LET d == CHOOSE v \in {IF g.canUseBackdrop
                               THEN detectBackdrop001(filters, 1, g.sourceFrame, d0)
                               ELSE d0} : TRUE
        IN  LET resolution == IF g.canUseBackdrop /\ d.backdrop # NullTex
                              THEN d.env.textures[d.backdrop].resolution
                              ELSE g.fold.resolution
                id == FreshTexture(d.env.textures)
                got == PoolTexture(g.sourceFrame.width, g.sourceFrame.height,
                                   resolution, 0)
            IN  [d |-> d, resolution |-> resolution, id |-> id,
                 rt |-> [got EXCEPT !.hasFrame = TRUE, !.filterFrame = g.sourceFrame],
                 request |-> Request(g.sourceFrame.width, g.sourceFrame.height,
                                     resolution, 0)]

\* lines 71-221
pushWithCheck001As(op, target, filters, checkEmptyBounds) ==
    /\ pushes < MaxPush
    /\ Len(defaultFilterStack) <= MaxDepth
    /\ \E g \in {resolveRegion001(target, filters)} :
        LET filterStack == defaultFilterStack
            pooled == Len(statePool) > 0
            state0 == IF pooled THEN statePool[Len(statePool)]
                      ELSE FilterState(nextStateId)
            pool0 == IF pooled THEN SubSeq(statePool, 1, Len(statePool) - 1)
                     ELSE statePool
            stack1 == recordTarget(filterStack, current)
            seen == [NoCall EXCEPT !.op = op, !.target = target, !.filters = filters,
                        !.checkEmptyBounds = checkEmptyBounds,
                        !.depth = Len(filterStack), !.preStack = filterStack,
                        !.preCurrent = current, !.preTransform = projectionTransform,
                        !.preTexUnits = texUnits, !.preFailed = diagnostic.failed,
                        !.fold = g.fold, !.currentResolution = g.currentResolution,
                        !.currentMultisample = g.currentMultisample,
                        !.padded = g.padded, !.visible = g.visible,
                        !.rounded = g.sourceFrame,
                        !.canUseBackdrop = g.canUseBackdrop]
        IN  /\ pushes' = pushes + 1
            /\ nextStateId' = IF pooled THEN nextStateId ELSE nextStateId + 1
            /\ IF emptyBounds(checkEmptyBounds, g.clipped)
               THEN \* lines 136-143
                    /\ defaultFilterStack' = stack1
                    /\ statePool' =
                           Append(pool0, clear([state0 EXCEPT
                                                   !.resolution = g.fold.resolution,
                                                   !.legacy = g.fold.legacy,
                                                   !.sourceFrame = g.clipped]))
                    /\ last' = [seen EXCEPT !.ret = FALSE, !.rounded = g.clipped]
                    /\ UNCHANGED <<current, rtSourceFrame, rtDestinationFrame,
                                   projectionTransform, textures, filterObj, texUnits,
                                   hadBackbufferError, opened, diagnostic>>
               ELSE \E a \in {acquireTextures001(g, state0, filters)} :
                    LET acquired == Append(a.d.env.acquired, a.id)
                        state2 == [state0 EXCEPT
                                      !.legacy = g.fold.legacy,
                                      !.target = target,
                                      !.sourceFrame = g.sourceFrame,
                                      !.backdrop = a.d.backdrop,
                                      !.backdropFlip = a.d.backdropFlip,
                                      !.resolution = a.resolution,
                                      !.renderTexture = a.id,
                                      !.filters = filters,
                                      !.destinationFrame.width = a.rt.width,
                                      !.destinationFrame.height = a.rt.height,
                                      !.bindingSourceFrame = rtSourceFrame,
                                      !.bindingDestinationFrame = rtDestinationFrame,
                                      !.transform = projectionTransform]
                    IN  /\ defaultFilterStack' = Append(stack1, state2)
                        /\ statePool' = pool0
                        /\ textures' = (a.id :> a.rt) @@ a.d.env.textures
                        /\ filterObj' = a.d.filterObj
                        /\ texUnits' = a.d.env.texUnits
                        /\ hadBackbufferError' = a.d.env.hadBackbufferError
                        /\ diagnostic' =
                               [failed |-> diagnostic.failed
                                    \/ \E k \in 1 .. Len(a.d.calls) : ~a.d.calls[k].copied,
                                warnings |-> diagnostic.warnings + a.d.env.warnings]
                        /\ projectionTransform' = NoTransform
                        /\ current' = a.id
                        /\ rtSourceFrame' = g.sourceFrame
                        /\ rtDestinationFrame' =
                               Rect(0, 0, g.sourceFrame.width, g.sourceFrame.height)
                        /\ opened' = Append([k \in 1 .. Len(opened) |->
                                                [opened[k] EXCEPT
                                                    !.nested = TRUE,
                                                    !.shared = @ \/
                                                        (Range(opened[k].filters)
                                                         \cap Range(filters) # {})]],
                                            [acquired |-> acquired, filters |-> filters,
                                             nested |-> FALSE,
                                             enclosed |-> Len(opened) > 0,
                                             shared |-> \E k \in 1 .. Len(opened) :
                                                 Range(opened[k].filters)
                                                 \cap Range(filters) # {},
                                             state |-> state2.id,
                                             bound |-> current,
                                             transform |-> projectionTransform,
                                             backdrop |-> a.d.backdrop,
                                             flipY |-> a.d.backdropFlip,
                                             resolution |-> a.resolution,
                                             attempted |-> Len(a.d.calls) > 0,
                                             legacy |-> [k \in 1 .. Len(filters) |->
                                                 filterObj[filters[k]].legacy]])
                        /\ last' = [seen EXCEPT !.ret = TRUE, !.acquired = acquired,
                                       !.requests = <<a.request>>,
                                       !.calls = a.d.calls,
                                       !.warnings = a.d.env.warnings]
    /\ UNCHANGED <<globalUniforms, activeState, useMaxPadding, backgroundAlpha, closed3>>

pushWithCheck001(target, filters) ==
    pushWithCheck001As("pushWithCheck", target, filters, TRUE)

\* lines 223-227
push001(target, filters) == pushWithCheck001As("push", target, filters, FALSE)

\* a variant that leaves the backdrop uniform set when the pass is over
clearedUniformNever(bName, uniform) == uniform

\* lines 246-249: the backdrop uniform when applyFilter returns
clearedUniform(bName, uniform) == IF bName # "" THEN NullTex ELSE uniform

\* lines 234-243: whether the region's flip descriptor is copied
copiesFlip(bName, backdropFlip, flip) == bName # "" /\ backdropFlip.has /\ flip.has

\* lines 229-250
applyFilter001(w, f, input, output, clearMode, top, active) ==
    LET bName == FilterDef(f).backdropUniformName
        flip == w.filterObj[f].flipY
        copies == copiesFlip(bName, active.backdropFlip, flip)
        w1 == IF bName = "" THEN w
              ELSE [w EXCEPT
                       !.filterObj[f].backdrop =
                           IF active.backdrop # NullTex THEN active.backdrop ELSE @,
                       !.filterObj[f].flipY =
                           IF copies
                           THEN [flip EXCEPT !.f0 = active.backdropFlip.f0,
                                             !.f1 = active.backdropFlip.f1]
                           ELSE flip]
        w2 == apply(w1, f, input, output, clearMode, top, active)
        after == clearedUniform(bName, w2.filterObj[f].backdrop)
    IN  [w2 EXCEPT !.filterObj[f].backdrop = after,
                   !.passes[Len(w2.passes)].after = after,
                   !.passes[Len(w2.passes)].flipCopied = copies]

\* lines 329-342
RECURSIVE pingPong001(_, _, _, _, _, _, _, _)
pingPong001(w, filters, filterLen, i, flip, flop, top, active) ==
    IF i >= filterLen - 1 THEN <<w, flip, flop>>
    ELSE pingPong001(applyFilter001(w, filters[i + 1], flip, flop, "CLEAR", top, active),
                     filters, filterLen, i + 1, flop, flip, top, active)

\* lines 314-349
runChain001(w, filters, filterLen, top, active) ==
    IF filterLen = 1
    THEN release(applyFilter001(w, filters[1], active.renderTexture,
                                top.renderTexture, "BLEND", top, active),
                 active.renderTexture)
    ELSE LET w0 == acquireFlop(w, active.renderTexture, active.resolution)
         IN  LET p == pingPong001(w0, filters, filterLen, 0, active.renderTexture,
                                  w0.acquired[Len(w0.acquired)], top, active)
             IN  release(release(applyFilter001(p[1], filters[filterLen], p[2],
                                                top.renderTexture, "BLEND", top,
                                                active),
                                 p[2]),
                         p[3])

\* lines 262-293: the uniform group, inputPixel not rounded
writeUniforms001(g, state) ==
    LET inputSize == <<state.destinationFrame.width, state.destinationFrame.height>>
        g1 == [g EXCEPT !.outputFrame = state.sourceFrame,
                        !.resolution = state.resolution,
                        !.inputSize = inputSize,
                        !.inputPixel = <<(inputSize[1] * state.resolution) \div Unit,
                                         (inputSize[2] * state.resolution) \div Unit>>]
    IN  IF state.legacy
        THEN [g1 EXCEPT !.filterArea = <<state.destinationFrame.width,
                                         state.destinationFrame.height,
                                         state.sourceFrame.x, state.sourceFrame.y>>,
                        !.filterClamp = "inputClamp"]
        ELSE g1

\* lines 297-360: the passes, then the region's backdrop goes back
closeRegion001(state, top) ==
    LET filters == state.filters
        n == Len(filters)
        skip == trivialLast(filters)
        filterLen == IF skip THEN n - 1 ELSE n
        w0 == [textures |-> textures, acquired |-> <<>>, returned |-> <<>>,
               texUnits |-> texUnits, current |-> current,
               rtSourceFrame |-> rtSourceFrame,
               rtDestinationFrame |-> rtDestinationFrame,
               projectionTransform |-> projectionTransform,
               filterObj |-> filterObj, passes |-> <<>>]
        tmpState == IF skip THEN filterObj[filters[n - 1]].state ELSE 0
        w1 == IF skip
              THEN [w0 EXCEPT !.filterObj[filters[n - 1]].state =
                                  filterObj[filters[n]].state]
              ELSE w0
    IN  LET w2 == runChain001(w1, filters, filterLen, top, state)
        IN  LET w3 == IF skip /\ tmpState # 0
                      THEN [w2 EXCEPT !.filterObj[filters[filterLen]].state = tmpState]
                      ELSE w2
            IN  IF state.backdrop # NullTex THEN release(w3, state.backdrop) ELSE w3

\* lines 252-364
pop001 ==
    /\ Len(defaultFilterStack) > 1
    /\ LET n == Len(defaultFilterStack)
           state == defaultFilterStack[n]
           filterStack == SubSeq(defaultFilterStack, 1, n - 1)
           lastState == filterStack[n - 1]
       IN  \E w \in {closeRegion001(state, lastState)} :
           /\ defaultFilterStack' = filterStack
           /\ activeState' = state.id
           /\ globalUniforms' = writeUniforms001(globalUniforms, state)
           /\ textures' = w.textures
           /\ texUnits' = w.texUnits
           /\ current' = w.current
           /\ rtSourceFrame' = w.rtSourceFrame
           /\ rtDestinationFrame' = w.rtDestinationFrame
           /\ projectionTransform' = w.projectionTransform
           /\ filterObj' = w.filterObj
           \* state.backdrop = undefined; state.clear(); backdropFlip stays
           /\ statePool' = Append(statePool, clear([state EXCEPT !.backdrop = NullTex]))
           /\ opened' = SubSeq(opened, 1, Len(opened) - 1)
           /\ closed3' = IF Len(state.filters) # 3 THEN closed3
                          ELSE closed3 \cup {[trivial |-> trivialLast(state.filters),
                                               multisample |-> state.multisample,
                                               acquired |-> Len(w.acquired)]}
           /\ last' = [NoCall EXCEPT
                          !.op = "pop", !.ret = TRUE, !.filters = state.filters,
                          !.target = state.target,
                          !.depth = n, !.preStack = defaultFilterStack,
                          !.preCurrent = current,
                          !.preTransform = projectionTransform,
                          !.preFilterArea = globalUniforms.filterArea,
                          !.preFilterClamp = globalUniforms.filterClamp,
                          !.acquired = w.acquired, !.returned = w.returned,
                          !.passes = w.passes,
                          !.blits = IF textures[state.renderTexture].multisample > 1
                                    THEN 1 ELSE 0,
                          !.opened = opened[Len(opened)]]
    /\ UNCHANGED <<nextStateId, hadBackbufferError, diagnostic, useMaxPadding,
                   backgroundAlpha, pushes>>

Next001 ==
    \/ \E r \in Renderings : render(r[1], r[2])
    \/ \E o \in CheckedOpens001 : pushWithCheck001(o[1], o[2])
    \/ \E o \in UncheckedOpens001 : push001(o[1], o[2])
    \/ pop001

Spec001 == Init /\ [][Next001]_vars

(***************************************************************************)
(* Properties.  `last' is the call just made, `opened' the regions open.   *)
(***************************************************************************)
IsOpen == last.op \in {"pushWithCheck", "push"}

\* C1: one open/close cycle performs exactly as many returnFilterTexture
\* calls as getOptimalFilterTexture calls: a rejected open acquires and
\* returns nothing, and the pop of an accepted open makes as many returns as
\* the open (working texture, backdrop) and the pop itself (flop) made
\* acquisitions.
C1_CycleBalanced ==
    /\ (IsOpen /\ ~last.ret) => (last.acquired = <<>> /\ last.returned = <<>>)
    /\ last.op = "pop" =>
          Len(last.returned) = Len(last.opened.acquired) + Len(last.acquired)

\* the same for a cycle whose filter objects are not in use by another
\* region open at the same time, texture by texture: the pop returns each
\* texture the cycle acquired exactly once.
C1_AcquiresMatchReturns ==
    /\ (IsOpen /\ ~last.ret) => (last.acquired = <<>> /\ last.returned = <<>>)
    /\ (last.op = "pop" /\ ~last.opened.shared) =>
          LET got == last.opened.acquired \o last.acquired
          IN  /\ Len(last.returned) = Len(got)
              /\ Range(last.returned) = Range(got)
              /\ Cardinality(Range(got)) = Len(got)

\* a cycle that acquired a working texture, a backdrop and a flop
C1_Witness ==
    /\ last.op = "pop"
    /\ ~last.opened.shared
    /\ Len(last.opened.acquired) = 2
    /\ Len(last.acquired) = 1
    /\ trivialLast(last.filters)

\* C2: a pushWithCheck whose rounded frame is at most 1x1 returns false,
\* acquires nothing, and leaves the region stack with the same entries and
\* contents, the bound target and the projection transform as they were.
C2_RejectedOpenChangesNothing ==
    (last.op = "pushWithCheck" /\ last.checkEmptyBounds
        /\ last.rounded.width <= Px(1) /\ last.rounded.height <= Px(1)) =>
       /\ ~last.ret
       /\ last.acquired = <<>>
       /\ defaultFilterStack = last.preStack
       /\ current = last.preCurrent
       /\ projectionTransform = last.preTransform

\* C3: a pushWithCheck whose rounded frame has zero width or zero height
\* is rejected before any texture is requested.
C3_ZeroAreaRejected ==
    (last.op = "pushWithCheck" /\ last.checkEmptyBounds
        /\ (last.rounded.width = 0 \/ last.rounded.height = 0)) =>
       (~last.ret /\ last.acquired = <<>> /\ last.requests = <<>>)

\* C4: with no projection transform, a pushWithCheck whose padded frame does
\* not overlap the visible source frame returns false and acquires no
\* texture, whether the chain is autoFit or not.
C4_OffscreenRejected ==
    LET a == last.padded
        b == last.visible
        overlap == /\ a.x < b.x + b.width /\ b.x < a.x + a.width
                   /\ a.y < b.y + b.height /\ b.y < a.y + a.height
    IN  (last.op = "pushWithCheck" /\ last.checkEmptyBounds
            /\ ~last.preTransform.set /\ ~overlap) =>
           (~last.ret /\ last.acquired = <<>> /\ last.requests = <<>>)

\* a non-autoFit chain on a target wholly outside the visible frame
C4_Witness ==
    /\ last.op = "pushWithCheck"
    /\ ~last.preTransform.set
    /\ ~last.fold.autoFit
    /\ last.padded.width > Px(1)
    /\ last.padded.x >= last.visible.x + last.visible.width
    /\ ~last.ret

\* the region on top of the stack
Top == defaultFilterStack[Len(defaultFilterStack)]

\* C5 as stated: after an accepted open the region's resolution is the
\* minimum of the resolutions the filters declare (an undeclared one
\* counting as the enclosing target's), whatever the order of the chain.
C5_ResolutionIsMinimum ==
    (IsOpen /\ last.ret) =>
       LET n == Len(last.filters)
           declared == {filterResolution(f, last.currentResolution) :
                            f \in Range(last.filters)}
           m == CHOOSE r \in declared : \A q \in declared : r <= q
       IN  /\ Top.resolution = m
           /\ \A p \in Permutations(1 .. n) :
                 resolveChain([k \in 1 .. n |-> last.filters[p[k]]],
                              last.currentResolution, last.currentMultisample,
                              useMaxPadding).resolution = m

\* C5 amended: after an accepted open that captured no backdrop the region's
\* resolution is the minimum of the resolutions the filters declare (an
\* undeclared one counting as the enclosing target's), whatever the order of
\* the chain; when a backdrop was captured it is the resolution of the
\* target the backdrop was copied from, and so is the resolution the working
\* texture is requested with.
C5_ResolutionMinimumOrBackdrop ==
    (IsOpen /\ last.ret) =>
       LET n == Len(last.filters)
           declared == {filterResolution(f, last.currentResolution) :
                            f \in Range(last.filters)}
           m == CHOOSE r \in declared : \A q \in declared : r <= q
           captured == \E k \in 1 .. Len(last.calls) : last.calls[k].copied
           expected == IF captured THEN last.currentResolution ELSE m
       IN  /\ Top.resolution = expected
           /\ last.requests[1].resolution = expected
           /\ \A p \in Permutations(1 .. n) :
                 resolveChain([k \in 1 .. n |-> last.filters[p[k]]],
                              last.currentResolution, last.currentMultisample,
                              useMaxPadding).resolution = m

\* a chain of filters declaring different resolutions, the larger first
\* or last, opened without a backdrop
C5_Witness ==
    /\ IsOpen /\ last.ret
    /\ last.calls = <<>>
    /\ Len(last.filters) >= 2
    /\ FilterDef(last.filters[Len(last.filters)]).resolution = 2
    /\ Top.resolution = 1

\* C6: after an accepted open the region's multisample is the minimum of
\* the filters' sample counts (an unset one counting as the enclosing
\* target's), and the working texture is requested with that value.
C6_MultisampleRecorded ==
    (IsOpen /\ last.ret) =>
       LET counts == {filterMultisample(f, last.currentMultisample) :
                          f \in Range(last.filters)}
           m == CHOOSE c \in counts : \A q \in counts : c <= q
       IN  /\ last.requests[1].multisample = m
           /\ Top.multisample = m

\* C7: the padding of a chain is the largest filter padding when
\* useMaxPadding is set and the sum of the filter paddings otherwise, the
\* target's bounds are padded by it, and the flag changes nothing else the
\* fold resolves (autoFit, legacy, resolution).
C7_PaddingPolicy ==
    IsOpen =>
       LET n == Len(last.filters)
           pads == [k \in 1 .. n |-> FilterDef(last.filters[k]).padding]
           sum[k \in 0 .. n] == IF k = 0 THEN 0 ELSE sum[k - 1] + pads[k]
           max == CHOOSE v \in Range(pads) : \A q \in Range(pads) : q <= v
           byMax == resolveChain(last.filters, last.currentResolution,
                                 last.currentMultisample, TRUE)
           bySum == resolveChain(last.filters, last.currentResolution,
                                 last.currentMultisample, FALSE)
           b == TargetBounds(last.target)
           by == IF useMaxPadding THEN max ELSE sum[n]
       IN  /\ byMax.padding = max
           /\ bySum.padding = sum[n]
           /\ last.fold.padding = by
           /\ last.padded = Rect(b.x - by, b.y - by, b.width + 2 * by, b.height + 2 * by)
           /\ byMax.autoFit = bySum.autoFit
           /\ byMax.legacy = bySum.legacy
           /\ byMax.resolution = bySum.resolution

\* a chain whose paddings 4 and 2 give 4 under the maximum policy
C7_Witness ==
    /\ IsOpen /\ last.ret
    /\ useMaxPadding
    /\ last.filters = <<1, 3>>
    /\ last.fold.padding = Px(4)
    /\ last.padded.width = TargetBounds(last.target).width + Px(8)

C9_CopyRectExact ==
    IsOpen =>
       \A k \in 1 .. Len(last.calls) :
          LET c == last.calls[k]
          IN  c.renderTarget # NullTex =>
                 /\ c.copied
                 /\ c.flipAfter = FlipY(Frac(0, 1), 1)
                 /\ c.copy.x * Unit = (c.bounds.x - c.frame.x + c.transform.tx) * c.resolution
                 /\ c.copy.y * Unit = (c.bounds.y - c.frame.y + c.transform.ty) * c.resolution
                 /\ c.copy.w * Unit = c.bounds.width * c.resolution
                 /\ c.copy.h * Unit = c.bounds.height * c.resolution

\* C9 amended: with a render texture of resolution r bound, prepareBackdrop
\* leaves the flip descriptor [0, +1] whatever it held, and copies the
\* rectangle whose x, y, w, h are (bounds.x - frame.x + tx) r,
\* (bounds.y - frame.y + ty) r, bounds.width r and bounds.height r each
\* rounded to the nearest integer, a half rounding up.
C9_CopyRectRounded ==
    IsOpen =>
       \A k \in 1 .. Len(last.calls) :
          LET c == last.calls[k]
              nearest(n, v) == 2 * n * Unit - 2 * v <= Unit /\ 2 * v - 2 * n * Unit < Unit
          IN  c.renderTarget # NullTex =>
                 /\ c.copied
                 /\ c.resolution = textures[c.renderTarget].resolution
                 /\ c.flipAfter = FlipY(Frac(0, 1), 1)
                 /\ nearest(c.copy.x, (c.bounds.x - c.frame.x + c.transform.tx) * c.resolution)
                 /\ nearest(c.copy.y, (c.bounds.y - c.frame.y + c.transform.ty) * c.resolution)
                 /\ nearest(c.copy.w, c.bounds.width * c.resolution)
                 /\ nearest(c.copy.h, c.bounds.height * c.resolution)

\* bounds {10,10,50,50} under a render texture of resolution 2 with frame
\* {0,0,200,200} copy {20,20,100,100}, the descriptor having held a
\* backbuffer capture's [h/H, -1]
C9_Witness ==
    /\ IsOpen /\ last.ret
    /\ Len(last.calls) = 1
    /\ LET c == last.calls[1]
       IN  /\ c.renderTarget = 1
           /\ c.resolution = 2
           /\ c.bounds = Rect(Px(10), Px(10), Px(50), Px(50))
           /\ c.frame = ScreenFrame
           /\ ~c.transform.set
           /\ c.flipBefore.f1 = -1
           /\ c.flipAfter = FlipY(Frac(0, 1), 1)
           /\ c.copy = [x |-> 20, y |-> 20, w |-> 100, h |-> 100]

\* C10: with the backbuffer bound and a background alpha of at least 1,
\* prepareBackdrop returns null: it acquires no texture, binds nothing to a
\* texture unit, copies nothing and leaves the flip descriptor as it was.
C10_OpaqueBackbufferNoCapture ==
    IsOpen =>
       \A k \in 1 .. Len(last.calls) :
          LET c == last.calls[k]
          IN  (c.renderTarget = NullTex /\ c.alpha >= 1) =>
                 /\ c.rt = NullTex
                 /\ ~c.copied
                 /\ c.copy = NoCopy
                 /\ c.unitsAfter = c.unitsBefore
                 /\ c.flipAfter = c.flipBefore
                 /\ Len(last.acquired) = 1
                 /\ Len(last.requests) = 1
                 /\ texUnits = last.preTexUnits

\* a chain with two backdrop filters opened on the opaque backbuffer
C10_Witness ==
    /\ IsOpen /\ last.ret
    /\ backgroundAlpha >= 1
    /\ Len(last.calls) = 2
    /\ last.calls[1].renderTarget = NullTex
    /\ last.calls[2].rt = NullTex

\* C11: the unreadable-backbuffer warning is printed by the first
\* prepareBackdrop call that fails because the backbuffer is bound with a
\* background alpha of at least 1, and by no other call: every later failing
\* call prints nothing and still returns null.
C11_WarnedOnce ==
    /\ diagnostic.warnings = (IF diagnostic.failed THEN 1 ELSE 0)
    /\ IsOpen =>
          \A k \in 1 .. Len(last.calls) :
             LET failing(j) == last.calls[j].renderTarget = NullTex
                                   /\ last.calls[j].alpha >= 1
                 first == ~last.preFailed /\ \A j \in 1 .. (k - 1) : ~failing(j)
             IN  /\ failing(k) => last.calls[k].rt = NullTex
                 /\ last.calls[k].warned <=> (failing(k) /\ first)

\* a later open fails on the opaque backbuffer, silently
C11_Witness ==
    /\ IsOpen /\ last.ret
    /\ last.preFailed
    /\ Len(last.calls) >= 1
    /\ last.calls[1].renderTarget = NullTex
    /\ last.calls[1].rt = NullTex
    /\ ~last.calls[1].warned
    /\ diagnostic.warnings = 1

\* C12: when pop closes a chain of N >= 2 filters whose last filter is
\* trivial, apply runs on the first N-1 filters in chain order and never on
\* the trivial one; the pass of the second-to-last filter runs with the
\* trivial filter's state object, the earlier passes with their own, and
\* after pop every filter has its own state object again.
C12_TrivialLastSkipped ==
    /\ \A f \in Filters : filterObj[f].state = f
    /\ (last.op = "pop" /\ Len(last.filters) >= 2
           /\ FilterDef(last.filters[Len(last.filters)]).trivial) =>
          LET n == Len(last.filters)
          IN  /\ Len(last.passes) = n - 1
              /\ \A k \in 1 .. (n - 1) :
                    /\ last.passes[k].filter = last.filters[k]
                    /\ last.passes[k].filter # last.filters[n]
                    /\ last.passes[k].state =
                           (IF k = n - 1 THEN last.filters[n] ELSE last.filters[k])

\* a 3-filter chain with a trivial last filter ran 2 passes
C12_Witness ==
    /\ last.op = "pop"
    /\ last.filters = <<1, 2, 3>>
    /\ Len(last.passes) = 2
    /\ last.passes[1].state = 1
    /\ last.passes[2].filter = 2
    /\ last.passes[2].state = 3
    /\ filterObj[2].state = 2

\* C13 as stated: closing a 3-filter chain whose last filter is trivial
\* acquires one intermediate texture fewer inside pop than closing a
\* 3-filter chain with no trivial filter.
C13_TrivialSavesTexture ==
    \A t \in closed3 : \A p \in closed3 :
        (t.trivial /\ ~p.trivial) => t.acquired = p.acquired - 1

\* C13 amended: closing a 3-filter chain whose last filter is trivial
\* acquires exactly one intermediate texture inside pop; closing a 3-filter
\* chain with no trivial filter acquires one as well, and two only when the
\* region's state.multisample is above 1.
C13_IntermediateTextures ==
    \A r \in closed3 :
        r.acquired = (IF ~r.trivial /\ r.multisample > 1 THEN 2 ELSE 1)

\* a trivial and a plain 3-filter chain closed, one intermediate texture each
C13_Witness ==
    /\ \E t \in closed3 : t.trivial /\ t.acquired = 1
    /\ \E p \in closed3 : ~p.trivial /\ p.multisample <= 1 /\ p.acquired = 1

\* C14: each pop closes the region opened last among those still open: it
\* runs that region's own chain in order, the first pass reading that
\* region's own working texture and the final pass writing the render
\* target that was bound when the region was opened (the enclosing region's
\* working texture, or the scene's target for an outermost region).
C14_PopClosesInnermost ==
    last.op = "pop" =>
       LET o == last.opened
           n == Len(last.passes)
       IN  /\ activeState = o.state
           /\ last.filters = o.filters
           /\ n >= 1
           /\ \A k \in 1 .. n : last.passes[k].filter = o.filters[k]
           /\ last.passes[1].input = o.acquired[Len(o.acquired)]
           /\ last.passes[n].output = o.bound
           /\ current = o.bound
           /\ (o.enclosed => o.bound = last.preStack[Len(last.preStack) - 1].renderTexture)
           /\ (~o.enclosed => o.bound \in UserTextures \cup {NullTex})

\* the inner of two nested regions closed into the outer's working texture
C14_Witness ==
    /\ last.op = "pop"
    /\ last.depth = 3
    /\ last.opened.enclosed
    /\ last.opened.bound \notin UserTextures \cup {NullTex}
    /\ last.passes[Len(last.passes)].output = last.opened.bound
    /\ Len(defaultFilterStack) = 2
    /\ current = defaultFilterStack[2].renderTexture

\* C15: in the simplified variant, at every pass pop runs on a filter that
\* declares a backdrop uniform, the uniform holds at apply the backdrop
\* captured for the region being closed and is null when the pass is over;
\* once pop has returned the captured texture is returned to the pool and no
\* filter of the chain references it.
C15_UniformScopedToPass ==
    last.op = "pop" =>
        LET o == last.opened
        IN  /\ \A k \in 1 .. Len(last.passes) :
                   FilterDef(last.passes[k].filter).backdropUniformName # "" =>
                       /\ last.passes[k].backdrop = o.backdrop
                       /\ last.passes[k].after = NullTex
            /\ o.backdrop # NullTex => o.backdrop \in Range(last.returned)
            /\ \A f \in Range(o.filters) :
                   FilterDef(f).backdropUniformName # "" => filterObj[f].backdrop = NullTex

\* a region that captured a backdrop is closed with a pass on a filter that
\* declares the uniform
C15_Witness ==
    /\ last.op = "pop"
    /\ last.opened.backdrop # NullTex
    /\ \E k \in 1 .. Len(last.passes) :
           /\ FilterDef(last.passes[k].filter).backdropUniformName # ""
           /\ last.passes[k].backdrop = last.opened.backdrop
    /\ Len(last.passes) >= 2

\* the filter objects of a chain that declare a backdrop uniform
BackdropFilters(filters) ==
    {f \in Range(filters) : FilterDef(f).backdropUniformName # ""}

\* C16: a region whose capture succeeds acquires exactly one backdrop texture
\* however many filters of its chain declare a backdrop uniform; while the
\* region is open, and at every pass of its pop, each of those filters'
\* backdrop uniform holds that texture and its _flipY uniform the region's
\* two values; pop returns the texture exactly once and leaves every one of
\* those uniforms null.
C16_BackdropSharedByChain ==
    /\ (IsOpen /\ last.ret /\ opened[Len(opened)].backdrop # NullTex) =>
           /\ Len(last.calls) = 1
           /\ Len(last.acquired) = 2
    /\ \A k \in 1 .. Len(opened) :
           opened[k].backdrop # NullTex =>
               \A f \in BackdropFilters(opened[k].filters) :
                   /\ filterObj[f].backdrop = opened[k].backdrop
                   /\ filterObj[f].flipY = opened[k].flipY
    /\ (last.op = "pop" /\ last.opened.backdrop # NullTex) =>
           LET o == last.opened
           IN  /\ \A k \in 1 .. Len(last.passes) :
                      last.passes[k].filter \in BackdropFilters(o.filters) =>
                          /\ last.passes[k].backdrop = o.backdrop
                          /\ last.passes[k].flipY = o.flipY
               /\ Cardinality({k \in 1 .. Len(last.returned) :
                                   last.returned[k] = o.backdrop}) = 1
               /\ \A f \in BackdropFilters(o.filters) :
                      filterObj[f].backdrop = NullTex

C18_BackdropResolution ==
    (IsOpen /\ last.ret /\ opened[Len(opened)].backdrop # NullTex) =>
        LET backdrop == textures[opened[Len(opened)].backdrop]
        IN  /\ Top.resolution = backdrop.resolution
            /\ last.requests[1].resolution = backdrop.resolution
            /\ textures[Top.renderTexture].resolution = backdrop.resolution
            /\ backdrop.resolution = last.currentResolution

\* a capture whose resolution differs from the chain's
C18_Witness ==
    /\ IsOpen /\ last.ret
    /\ opened[Len(opened)].backdrop # NullTex
    /\ last.fold.resolution # textures[opened[Len(opened)].backdrop].resolution
    /\ Top.resolution = textures[opened[Len(opened)].backdrop].resolution

\* the region state a pop closed
Closed == last.preStack[Len(last.preStack)]

\* the number of filters pop runs: a trivial last one is left out
Effective(filters) == IF trivialLast(filters) THEN Len(filters) - 1 ELSE Len(filters)

\* C19: a pop with M >= 2 effective filters invokes them once each in chain
\* order; the first pass reads the region's working texture and every later
\* pass reads the texture the pass before it wrote; every pass but the last
\* uses CLEAR and writes a texture of the filter pool (one acquired inside
\* this pop or the working texture, and only the former when
\* state.multisample > 1), the last uses BLEND and writes the render texture
\* of the enclosing entry of the region stack.
C19_PassChain ==
    (last.op = "pop" /\ Effective(last.filters) >= 2) =>
        LET M == Effective(last.filters)
            working == Closed.renderTexture
            enclosing == last.preStack[Len(last.preStack) - 1].renderTexture
        IN  /\ Len(last.passes) = M
            /\ \A k \in 1 .. M : last.passes[k].filter = last.filters[k]
            /\ last.passes[1].input = working
            /\ \A k \in 2 .. M : last.passes[k].input = last.passes[k - 1].output
            /\ \A k \in 1 .. (M - 1) :
                   /\ last.passes[k].clearMode = "CLEAR"
                   /\ last.passes[k].output \in Range(last.acquired) \cup {working}
                   /\ last.passes[k].output # enclosing
                   /\ Closed.multisample > 1 => last.passes[k].output # working
            /\ last.passes[M].clearMode = "BLEND"
            /\ last.passes[M].output = enclosing

\* a three-pass pop of a region whose state.multisample is above 1: the
\* second pass wrote the reallocated texture
C19_Witness ==
    /\ last.op = "pop"
    /\ Effective(last.filters) = 3
    /\ Closed.multisample > 1
    /\ Len(last.acquired) = 2
    /\ last.passes[2].output = last.acquired[2]
    /\ last.passes[3].input = last.acquired[2]

\* C20: in every pass pop runs the input and the output are different
\* textures; during one pop no texture is returned to the pool more than
\* once; and no pass reads a texture (its input or its backdrop) that was
\* returned before the pass.
C20_NoAliasNoDoubleReturn ==
    last.op = "pop" =>
        /\ \A k \in 1 .. Len(last.passes) :
               /\ last.passes[k].input # last.passes[k].output
               /\ last.passes[k].input \notin Range(last.passes[k].returnedBefore)
               /\ last.passes[k].backdrop = NullTex
                      \/ last.passes[k].backdrop \notin Range(last.passes[k].returnedBefore)
        /\ \A i, j \in 1 .. Len(last.returned) :
               last.returned[i] = last.returned[j] => i = j
        /\ Closed.renderTexture \in Range(last.returned)

\* C21 as stated: on an accepted open the region state's destinationFrame
\* has the width and height of the texture the pool returned, and the
\* working texture is bound with that destinationFrame as its viewport.
C21_ViewportIsDestinationFrame ==
    (IsOpen /\ last.ret) =>
        /\ Top.destinationFrame.width = textures[Top.renderTexture].width
        /\ Top.destinationFrame.height = textures[Top.renderTexture].height
        /\ current = Top.renderTexture
        /\ rtDestinationFrame = Top.destinationFrame

\* C21 amended: on an accepted open the region state's destinationFrame has
\* the width and height of the texture the pool returned, and the working
\* texture is bound with source frame state.sourceFrame and with the
\* viewport {0, 0, sourceFrame.width, sourceFrame.height}.
C21_ViewportIsSourceFrameSize ==
    (IsOpen /\ last.ret) =>
        /\ Top.destinationFrame.x = 0 /\ Top.destinationFrame.y = 0
        /\ Top.destinationFrame.width = textures[Top.renderTexture].width
        /\ Top.destinationFrame.height = textures[Top.renderTexture].height
        /\ current = Top.renderTexture
        /\ rtSourceFrame = Top.sourceFrame
        /\ rtDestinationFrame = Rect(0, 0, Top.sourceFrame.width, Top.sourceFrame.height)

\* the pool returned a texture larger than the source frame, which does not
\* start at the origin
C21_Witness ==
    /\ IsOpen /\ last.ret
    /\ textures[Top.renderTexture].width > Top.sourceFrame.width
    /\ Top.sourceFrame.width > 0
    /\ Top.sourceFrame.x > 0
    /\ rtDestinationFrame.width < Top.destinationFrame.width

\* a rectangle on the pixel grid
OnGrid(r) ==
    /\ r.x % Unit = 0 /\ r.y % Unit = 0
    /\ r.width % Unit = 0 /\ r.height % Unit = 0

\* C22: whenever an open invokes prepareBackdrop with no projection
\* transform and with bounds and frame on the pixel grid, the rectangle it
\* copies lies inside the pixel area of the framebuffer it reads:
\* 0 <= x, 0 <= y, x + w <= frame.width r and y + h <= frame.height r.
C22_CopyRectInsideFrame ==
    IsOpen =>
        \A k \in 1 .. Len(last.calls) :
            LET c == last.calls[k]
            IN  (c.copied /\ ~c.transform.set /\ OnGrid(c.bounds) /\ OnGrid(c.frame)) =>
                    /\ 0 <= c.copy.x
                    /\ 0 <= c.copy.y
                    /\ (c.copy.x + c.copy.w) * Unit <= c.frame.width * c.resolution
                    /\ (c.copy.y + c.copy.h) * Unit <= c.frame.height * c.resolution

\* C23: an open never invokes prepareBackdrop when the render target bound
\* at the call (or the renderer, when the backbuffer is bound) has a
\* non-zero multisample count.
C23_NoCaptureUnderMultisample ==
    (IsOpen /\ last.currentMultisample # 0) => last.calls = <<>>

\* C24: a pop never returns the backdrop of a region that is still open;
\* when a region that captured a backdrop is closed, each pass of its pop on
\* a filter that declares the uniform finds the region's backdrop assigned,
\* and the pop returns that texture exactly once.
C24_EnclosingBackdropKept ==
    last.op = "pop" =>
        /\ \A k \in 1 .. Len(opened) :
               opened[k].backdrop # NullTex =>
                   opened[k].backdrop \notin Range(last.returned)
        /\ last.opened.backdrop # NullTex =>
               /\ \A k \in 1 .. Len(last.passes) :
                      last.passes[k].filter \in BackdropFilters(last.opened.filters) =>
                          last.passes[k].backdrop = last.opened.backdrop
               /\ Cardinality({k \in 1 .. Len(last.returned) :
                                   last.returned[k] = last.opened.backdrop}) = 1

\* C25: in the simplified variant, whenever a pass of pop copies a flip
\* descriptor into a filter's _flipY uniform, a capture was attempted for
\* the region being closed and the descriptor is the one that capture left;
\* the pop of a region for which no capture was attempted copies none and
\* leaves the flip uniforms of its filters as they were.
C25_FlipFromOwnCapture ==
    last.op = "pop" =>
        \A k \in 1 .. Len(last.passes) :
            last.passes[k].flipCopied =>
                /\ last.opened.attempted
                /\ last.passes[k].flipY.f0 = last.opened.flipY.f0
                /\ last.passes[k].flipY.f1 = last.opened.flipY.f1

\* the FilterState objects of a sequence, by identity
Ids(states) == [k \in 1 .. Len(states) |-> states[k].id]

\* C26: after any sequence of opens and matching closes no FilterState is
\* at once on the region stack and in the state pool, none appears twice in
\* either, the stack holds the base entry and one entry per open region,
\* and the base entry is still the first entry.
C26_StackAndPoolDisjoint ==
    LET stack == Ids(SubSeq(defaultFilterStack, 2, Len(defaultFilterStack)))
        pool == Ids(statePool)
    IN  /\ Range(stack) \cap Range(pool) = {}
        /\ Cardinality(Range(stack)) = Len(stack)
        /\ Cardinality(Range(pool)) = Len(pool)
        /\ Len(defaultFilterStack) = 1 + Len(opened)
        /\ defaultFilterStack[1].id = BaseEntry.id
        /\ \A k \in 1 .. Len(opened) : defaultFilterStack[k + 1].id = opened[k].state
        /\ BaseEntry.id \notin Range(stack) \cup Range(pool)

\* the one state constructed so far went through the pool and is on the
\* stack again
C26_Witness ==
    /\ IsOpen /\ last.ret
    /\ pushes = 2
    /\ nextStateId = 2
    /\ Len(defaultFilterStack) = 2
    /\ Top.id = 1
    /\ statePool = <<>>

====
